---- MODULE Spec2Model ----
(***************************************************************************)
(* Model of the pyRevit command "Enhanced Transform Model and Views"       *)
(* (test_button.pushbutton/script.py): transform_model_and_views_v3 and    *)
(* the passes it runs inside one transaction.                              *)
(*                                                                         *)
(* Geometry is exact integer geometry: points and vectors are triples of   *)
(* integers and rotation angles are multiples of 90 degrees about the      *)
(* vertical axis, so that "within floating-point tolerance" becomes        *)
(* equality.  Orientation of an element is an angle in degrees mod 360.    *)
(*                                                                         *)
(* The Revit document is the environment.  What the API calls do is not    *)
(* in the repository; the model fixes it as follows and every definition   *)
(* that does so says it:                                                   *)
(*   - a rotate / move call on an element either is rejected (exception,   *)
(*     nothing changes) or is applied exactly; which elements reject is    *)
(*     chosen in Init (env.rotFail, env.moveFail);                         *)
(*   - a batch call is rejected as a whole when one element rejects;       *)
(*   - an element of env.fragile is invalidated by a successful rotation;  *)
(*   - two walls stay joined as long as both exist and share an endpoint;  *)
(*   - JoinGeometry is accepted when the walls share an endpoint, are not  *)
(*     joined yet and the pair is not in env.joinRejects; a rejection may  *)
(*     also be transient (env.joinTransient): it lasts through             *)
(*     clean_wall_constraints, or through the direct call of               *)
(*     restore_wall_joins too, and is over when that function retries.     *)
(***************************************************************************)
EXTENDS Integers, Sequences, FiniteSets, TLC

VARIABLES
    pc,            \* position inside transform_model_and_views_v3
    run,           \* number of the current invocation of the command
    args,          \* [t, deg, origin]: the arguments of the invocation
    center,        \* rotation_origin after defaulting
    combined,      \* combined_transform
    env,           \* what the document will reject (chosen once)
    elems,         \* model elements: [exists, pos, ori, joined]
    te,            \* locals of transform_elements_robust
    markers,       \* marker elements: [pos, ori]
    views,         \* views: crop boxes and section boxes
    annots,        \* annotation elements
    out,           \* return values and counters of the passes
    ghost          \* history: snapshots and call logs

vars == <<pc, run, args, center, combined, env, elems, te, markers, views,
          annots, out, ghost>>

(***************************************************************************)
(* Bounds of the model                                                     *)
(***************************************************************************)
\* Invocations of the command in one behaviour
MaxRuns == 2

\* Rejections the document makes in one behaviour of the element passes
MaxFaults == 2

(***************************************************************************)
(* Vectors, DB.XYZ                                                         *)
(***************************************************************************)
Zero3 == <<0, 0, 0>>

Add(u, v) == <<u[1] + v[1], u[2] + v[2], u[3] + v[3]>>

Sub(u, v) == <<u[1] - v[1], u[2] - v[2], u[3] - v[3]>>

Dot(u, v) == u[1] * v[1] + u[2] * v[2] + u[3] * v[3]

DistSq(p, q) == Dot(Sub(p, q), Sub(p, q))

NormAngle(a) == ((a % 360) + 360) % 360

\* Rotation of a vector about the vertical (Z) axis by a degrees
RotVec(v, a) ==
    CASE NormAngle(a) = 0   -> v
      [] NormAngle(a) = 90  -> <<0 - v[2], v[1], v[3]>>
      [] NormAngle(a) = 180 -> <<0 - v[1], 0 - v[2], v[3]>>
      [] NormAngle(a) = 270 -> <<v[2], 0 - v[1], v[3]>>

\* Rotation of a point about the vertical axis through c
RotAbout(p, a, c) == Add(c, RotVec(Sub(p, c), a))

(***************************************************************************)
(* DB.Transform: a linear part (rotation about Z by lin degrees) and an    *)
(* origin, the image of (0,0,0).                                           *)
(***************************************************************************)
CreateTranslation(t) == [lin |-> 0, origin |-> t]

CreateRotationAtPoint(a, c) ==
    [lin |-> NormAngle(a), origin |-> Sub(c, RotVec(c, a))]

\* left.Multiply(right): right is applied first, then left
Multiply(left, right) ==
    [lin    |-> NormAngle(left.lin + right.lin),
     origin |-> Add(RotVec(right.origin, left.lin), left.origin)]

OfPoint(T, p) == Add(RotVec(p, T.lin), T.origin)

OfVector(T, v) == RotVec(v, T.lin)

IsTranslation(T) == T.lin = 0

(***************************************************************************)
(* The model elements of the document                                      *)
(***************************************************************************)
\* The candidate elements in collector order (walls, floors, doors)
ElemSeq == <<"W1", "W2", "F", "D">>

Elems == {ElemSeq[i] : i \in DOMAIN ElemSeq}

\* isinstance(element, DB.Wall)
IsWall(e) == e \in {"W1", "W2"}

\* isinstance(element, (DB.Floor, DB.RoofBase, DB.Ceiling))
IsSketch(e) == e = "F"

\* hasattr(element, 'Host') and element.Host is not None
HasHost(e) == e = "D"

\* A wall's location curve runs from pos along its orientation
WallVec == <<2, 0, 0>>

EndPoints(d, w) == {d.pos[w], Add(d.pos[w], RotVec(WallVec, d.ori[w]))}

\* [curve.GetEndPoint(0), curve.GetEndPoint(1)]
EndPointSeq(d, w) == <<d.pos[w], Add(d.pos[w], RotVec(WallVec, d.ori[w]))>>

\* ep1.DistanceTo(ep2) < tol for some pair of endpoints; tolSqInv = 1/tol^2
EndsCloser(d, a, b, tolSqInv) ==
    \E p \in EndPoints(d, a), q \in EndPoints(d, b) : tolSqInv * DistSq(p, q) < 1

Touching(d, a, b) ==
    \E p \in EndPoints(d, a), q \in EndPoints(d, b) : p = q

\* DB.JoinGeometryUtils.AreElementsJoined(document, a, b)
AreElementsJoined(d, a, b) == {a, b} \in d.joined

\* The document keeps a join only while both walls exist and touch
Settle(d) ==
    [d EXCEPT !.joined =
        {pr \in d.joined :
            /\ \A w \in pr : d.exists[w]
            /\ \E a \in pr, b \in pr : a # b /\ Touching(d, a, b)}]

\* JoinGeometry(document, a, b) can be accepted at all
JoinPossible(d, a, b) ==
    /\ d.exists[a] /\ d.exists[b]
    /\ Touching(d, a, b)
    /\ ~AreElementsJoined(d, a, b)
    /\ {a, b} \notin env.joinRejects

\* DB.JoinGeometryUtils.JoinGeometry(document, a, b) does not raise, in
\* clean_wall_constraints
JoinAccepted(d, a, b) == JoinPossible(d, a, b) /\ env.joinTransient = "none"

\* The same for the direct call of restore_wall_joins
JoinAcceptedDirect(d, a, b) ==
    JoinPossible(d, a, b) /\ env.joinTransient # "direct"

\* The same for the calls of the endpoint fallback of restore_wall_joins
JoinAcceptedRetry(d, a, b) == JoinPossible(d, a, b)

JoinGeometry(d, a, b) == [d EXCEPT !.joined = @ \cup {{a, b}}]

\* DB.ElementTransformUtils.RotateElement does not raise
CanRotate(d, e) == d.exists[e] /\ e \notin env.rotFail

\* DB.ElementTransformUtils.MoveElement does not raise
CanMove(d, e) == d.exists[e] /\ e \notin env.moveFail

\* Effect of an accepted rotation of the elements S about the axis through c
Rotated(d, S, c, a) ==
    Settle([d EXCEPT
        !.pos = [e \in Elems |-> IF e \in S THEN RotAbout(d.pos[e], a, c) ELSE d.pos[e]],
        !.ori = [e \in Elems |-> IF e \in S THEN NormAngle(d.ori[e] + a) ELSE d.ori[e]],
        !.exists = [e \in Elems |-> d.exists[e] /\ ~(e \in S /\ e \in env.fragile)]])

\* Effect of an accepted move of the elements S by v
Moved(d, S, v) ==
    Settle([d EXCEPT
        !.pos = [e \in Elems |-> IF e \in S THEN Add(d.pos[e], v) ELSE d.pos[e]]])

SeqSet(s) == {s[i] : i \in DOMAIN s}

\* Mutation: the individual retry gives up at the first element that raises
RECURSIVE RotateEachStopsAtFailure(_, _, _, _)
RotateEachStopsAtFailure(d, ids, c, a) ==
    IF ids = <<>> THEN d
    ELSE LET e == Head(ids)
         IN  IF CanRotate(d, e)
             THEN RotateEachStopsAtFailure(Rotated(d, {e}, c, a), Tail(ids), c, a)
             ELSE d

\* DB.ElementTransformUtils.RotateElement inside try/except: continue
RECURSIVE RotateEach(_, _, _, _)
RotateEach(d, ids, c, a) ==
    IF ids = <<>> THEN d
    ELSE LET e == Head(ids)
         IN  RotateEach(IF CanRotate(d, e) THEN Rotated(d, {e}, c, a) ELSE d,
                        Tail(ids), c, a)

\* Mutation: the rotation axis is put through the center of the rotated
\* elements, not through the rotation origin that was passed
RotateBatchAboutOwnCenter(d, ids, c, a) ==
    LET own == IF ids = <<>> THEN c
               ELSE LET pts == {d.pos[e] : e \in SeqSet(ids)}
                    IN  CHOOSE p \in pts : \A q \in pts : p[1] <= q[1]
    IN  IF ids = <<>> THEN d
        ELSE IF \A e \in SeqSet(ids) : CanRotate(d, e)
             THEN Rotated(d, SeqSet(ids), own, a)
             ELSE RotateEach(d, ids, own, a)

\* RotateElements on the whole list; on an exception, one by one
RotateBatch(d, ids, c, a) ==
    IF ids = <<>> THEN d
    ELSE IF \A e \in SeqSet(ids) : CanRotate(d, e)
         THEN Rotated(d, SeqSet(ids), c, a)
         ELSE RotateEach(d, ids, c, a)

get_model_elements(d) == SelectSeq(ElemSeq, LAMBDA e : d.exists[e])

get_valid_elements(d, ids) == SelectSeq(ids, LAMBDA e : d.exists[e])

\* Mutation: the two lists are returned in the other order
separate_hosted_elementsSwapped(d, ids) ==
    [hosted     |-> SelectSeq(ids, LAMBDA e : ~(d.exists[e] /\ HasHost(e))),
     non_hosted |-> SelectSeq(ids, LAMBDA e : d.exists[e] /\ HasHost(e))]

\* (hosted_elements, non_hosted_elements)
separate_hosted_elements(d, ids) ==
    [hosted     |-> SelectSeq(ids, LAMBDA e : d.exists[e] /\ HasHost(e)),
     non_hosted |-> SelectSeq(ids, LAMBDA e : ~(d.exists[e] /\ HasHost(e)))]

\* The pairs (walls[i], walls[j]), i < j, that are joined
store_wall_joins(d, ids) ==
    LET walls == SelectSeq(ids, LAMBDA e : d.exists[e] /\ IsWall(e))
        pairs == {<<i, j>> \in (DOMAIN walls) \X (DOMAIN walls) :
                     i < j /\ AreElementsJoined(d, walls[i], walls[j])}
        RECURSIVE Build(_, _)
        Build(i, j) ==
            IF i > Len(walls) THEN <<>>
            ELSE IF j > Len(walls) THEN Build(i + 1, i + 2)
            ELSE (IF <<i, j>> \in pairs THEN <<(<<walls[i], walls[j]>>)>> ELSE <<>>)
                 \o Build(i, j + 1)
    IN  Build(1, 2)

\* Joins every pair of walls of the list that is not joined and has
\* endpoints closer than 0.1
clean_wall_constraints(d, ids) ==
    LET walls == {e \in SeqSet(ids) : d.exists[e] /\ IsWall(e)}
    IN  [d EXCEPT !.joined = @ \cup
            {{a, b} : <<a, b>> \in
                {pr \in walls \X walls :
                    /\ pr[1] # pr[2]
                    /\ ~AreElementsJoined(d, pr[1], pr[2])
                    /\ EndsCloser(d, pr[1], pr[2], 100)
                    /\ JoinAccepted(d, pr[1], pr[2])}}]

(***************************************************************************)
(* transform_elements_robust: the sketch-based loop, the translation and   *)
(* the restoration of the wall joins.  A loop state st is                  *)
(* [d, count, tally, calls]: the document's elements, transformed_count,   *)
(* for each element how many times transformed_count has counted it, and   *)
(* the log of the calls made so far.                                       *)
(***************************************************************************)
\* translation_vector = transform.Origin
translation_vector == combined.origin

\* A call of DB.ElementTransformUtils recorded for the properties: the
\* function called, the elements passed, whether the document accepted it, and
\* the vector moved by or the point the rotation axis passes through
Call(op, S, ok, at) == [op |-> op, ids |-> S, ok |-> ok, at |-> at]

\* Mutation: the rotation of a sketch-based element is tried whether or not
\* its translation was accepted
RECURSIVE SketchEachRotatesRegardless(_, _)
SketchEachRotatesRegardless(st, ids) ==
    IF ids = <<>> THEN st
    ELSE LET e       == Head(ids)
             d       == st.d
             tv      == combined.origin
             moved   == /\ d.exists[e]
                        /\ Dot(tv, tv) > 0
                        /\ CanMove(d, e)
             d1      == IF moved THEN Moved(d, {e}, tv) ELSE d
             rot_center == IF e \in env.noPoint THEN center ELSE d1.pos[e]
             rotated == d.exists[e] /\ args.deg # 0 /\ CanRotate(d1, e)
             d2      == IF rotated THEN Rotated(d1, {e}, rot_center, args.deg) ELSE d1
             inc     == IF moved THEN 1 ELSE 0
             mcall   == IF d.exists[e] /\ Dot(tv, tv) > 0
                        THEN <<Call("MoveElement", {e}, moved, tv)>> ELSE <<>>
             rcall   == IF d.exists[e] /\ args.deg # 0
                        THEN <<Call("RotateElement", {e}, rotated, rot_center)>>
                        ELSE <<>>
         IN  SketchEachRotatesRegardless(
                 [d     |-> d2,
                  count |-> st.count + inc,
                  tally |-> [st.tally EXCEPT ![e] = @ + inc],
                  calls |-> st.calls \o mcall \o rcall],
                 Tail(ids))

RECURSIVE SketchEach(_, _)
SketchEach(st, ids) ==
    IF ids = <<>> THEN st
    ELSE LET e       == Head(ids)
             d       == st.d
             tv      == combined.origin
             \* transform.Origin.GetLength() > 0.001 (an integer vector is
             \* longer than 0.001 iff it is not zero), then MoveElement
             moved   == /\ d.exists[e]
                        /\ Dot(tv, tv) > 0
                        /\ CanMove(d, e)
             d1      == IF moved THEN Moved(d, {e}, tv) ELSE d
             \* the element's own Location.Point when it has one
             rot_center == IF e \in env.noPoint THEN center ELSE d1.pos[e]
             rotated == moved /\ args.deg # 0 /\ CanRotate(d1, e)
             d2      == IF rotated THEN Rotated(d1, {e}, rot_center, args.deg) ELSE d1
             inc     == IF moved THEN 1 ELSE 0
             \* the calls made for e: MoveElement when the vector is long
             \* enough, RotateElement when transformation_success and
             \* rotation_degrees != 0
             mcall   == IF d.exists[e] /\ Dot(tv, tv) > 0
                        THEN <<Call("MoveElement", {e}, moved, tv)>> ELSE <<>>
             rcall   == IF moved /\ args.deg # 0
                        THEN <<Call("RotateElement", {e}, rotated, rot_center)>>
                        ELSE <<>>
         IN  SketchEach([d     |-> d2,
                         count |-> st.count + inc,
                         tally |-> [st.tally EXCEPT ![e] = @ + inc],
                         calls |-> st.calls \o mcall \o rcall],
                        Tail(ids))

RECURSIVE MoveEach(_, _, _)
MoveEach(st, ids, v) ==
    IF ids = <<>> THEN st
    ELSE LET e   == Head(ids)
             ok  == CanMove(st.d, e)
             inc == IF ok THEN 1 ELSE 0
         IN  MoveEach([d     |-> IF ok THEN Moved(st.d, {e}, v) ELSE st.d,
                       count |-> st.count + inc,
                       tally |-> [st.tally EXCEPT ![e] = @ + inc],
                       calls |-> Append(st.calls, Call("MoveElement", {e}, ok, v))],
                      Tail(ids), v)

\* Step 2 of transform_elements_robust
TranslateValid(st, ids) ==
    LET tv    == translation_vector
        valid == get_valid_elements(st.d, ids)
        V     == SeqSet(valid)
        once  == [e \in Elems |-> IF e \in V THEN 1 ELSE 0]
        \* MoveElements raises when one element cannot be moved, or for the
        \* batch as a whole
        bulk  == ~env.bulkMoveFails /\ \A e \in V : CanMove(st.d, e)
        tried == Append(st.calls, Call("MoveElements", V, bulk, tv))
    IN  IF ~(tv[1] = 0 /\ tv[2] = 0 /\ tv[3] = 0)
        THEN IF bulk
             THEN [d |-> Moved(st.d, V, tv), count |-> Len(valid), tally |-> once,
                   calls |-> tried]
             ELSE MoveEach([st EXCEPT !.calls = tried], valid, tv)
        ELSE [d |-> st.d, count |-> Len(valid), tally |-> once,
              calls |-> st.calls]

\* Mutation: a record found joined already is not counted as restored
RestoreOneSkipsJoined(r, i, rec) ==
    LET a == rec[1]
        b == rec[2]
        d == r.d
    IN  IF ~(d.exists[a] /\ d.exists[b]) \/ AreElementsJoined(d, a, b) THEN r
        ELSE IF JoinAccepted(d, a, b)
        THEN [r EXCEPT !.d = JoinGeometry(d, a, b),
                       !.restored_count = @ + 1,
                       !.counted[i] = @ + 1,
                       !.attempts[i] = @ + 1]
        ELSE [r EXCEPT !.reported = @ \cup {i}, !.attempts[i] = @ + 1]

\* Mutation: a join that raised is counted as restored and not reported
RestoreOneCountsFailure(r, i, rec) ==
    LET a == rec[1]
        b == rec[2]
        d == r.d
    IN  IF ~(d.exists[a] /\ d.exists[b]) THEN r
        ELSE [r EXCEPT !.d = IF JoinAccepted(d, a, b) THEN JoinGeometry(d, a, b) ELSE d,
                       !.restored_count = @ + 1,
                       !.counted[i] = @ + 1,
                       !.attempts[i] = @ + (IF AreElementsJoined(d, a, b) THEN 0 ELSE 1)]

\* The endpoint fallback of restore_wall_joins for one endpoint ep1 of the
\* first wall: the inner loop over the endpoints of the second wall, left by
\* break after an accepted join.  x = [r, raised]; an exception raised by
\* JoinGeometry leaves both loops (except: continue).
RetryStep(x, i, a, b, ep1) ==
    IF x.raised \/ ~(\E ep2 \in EndPoints(x.r.d, b) : DistSq(ep1, ep2) < 1)
    THEN x
    ELSE IF JoinAcceptedRetry(x.r.d, a, b)
         THEN [x EXCEPT !.r = [x.r EXCEPT !.d = JoinGeometry(@, a, b),
                                          !.restored_count = @ + 1,
                                          !.counted[i] = @ + 1,
                                          !.attempts[i] = @ + 1]]
         ELSE [x EXCEPT !.r = [x.r EXCEPT !.attempts[i] = @ + 1],
                        !.raised = TRUE]

\* One iteration of the loop of restore_wall_joins over record i = (a, b).
\* r = [d, restored_count, counted, reported, attempts]: counted[i] is how
\* often record i was added to restored_count, reported holds the records
\* printed as failed, attempts[i] counts the JoinGeometry calls made for i.
RestoreOne(r, i, rec) ==
    LET a == rec[1]
        b == rec[2]
        d == r.d
    IN  IF ~(d.exists[a] /\ d.exists[b]) THEN r
        ELSE IF AreElementsJoined(d, a, b)
        THEN [r EXCEPT !.restored_count = @ + 1, !.counted[i] = @ + 1]
        ELSE IF JoinAcceptedDirect(d, a, b)
        THEN [r EXCEPT !.d = JoinGeometry(d, a, b),
                       !.restored_count = @ + 1,
                       !.counted[i] = @ + 1,
                       !.attempts[i] = @ + 1]
        ELSE LET eps == EndPointSeq(d, a)
                 x0  == [r      |-> [r EXCEPT !.reported = @ \cup {i},
                                              !.attempts[i] = @ + 1],
                         raised |-> FALSE]
                 x1  == RetryStep(x0, i, a, b, eps[1])
                 x2  == RetryStep(x1, i, a, b, eps[2])
             IN  x2.r

RECURSIVE RestoreFrom(_, _, _)
RestoreFrom(r, i, wall_joins) ==
    IF i > Len(wall_joins) THEN r
    ELSE RestoreFrom(RestoreOne(r, i, wall_joins[i]), i + 1, wall_joins)

restore_wall_joins(d, wall_joins) ==
    RestoreFrom([d              |-> d,
                 restored_count |-> 0,
                 counted        |-> [i \in DOMAIN wall_joins |-> 0],
                 reported       |-> {},
                 attempts       |-> [i \in DOMAIN wall_joins |-> 0]],
                1, wall_joins)

(***************************************************************************)
(* transform_model_and_views_v3                                            *)
(***************************************************************************)
SetMin(S) == CHOOSE x \in S : \A y \in S : x <= y

SetMax(S) == CHOOSE x \in S : \A y \in S : x >= y

\* element.get_BoundingBox(None): the corner points of the element
BoxPoints(d, e) == IF IsWall(e) THEN EndPoints(d, e) ELSE {d.pos[e]}

\* Midpoint in x and y, lowest z, of the union of the bounding boxes
calculate_building_center(d, ids) ==
    LET pts == UNION {BoxPoints(d, e) : e \in {x \in SeqSet(ids) : d.exists[x]}}
        X   == {p[1] : p \in pts}
        Y   == {p[2] : p \in pts}
        Z   == {p[3] : p \in pts}
    IN  IF pts = {} THEN Zero3
        ELSE <<(SetMin(X) + SetMax(X)) \div 2,
               (SetMin(Y) + SetMax(Y)) \div 2,
               SetMin(Z)>>

\* combined_transform
ComposeTransform(t, deg, c) ==
    IF deg # 0
    THEN Multiply(CreateTranslation(t), CreateRotationAtPoint(deg, c))
    ELSE CreateTranslation(t)

(***************************************************************************)
(* Markers.  "MF" is a FamilyInstance marker with a LocationPoint, "MH" an *)
(* ElevationMarker hub.  A family name is the set of the keywords it       *)
(* contains; markers.cat tells whether the instance is in the category     *)
(* OST_ElevationMarks.                                                     *)
(***************************************************************************)
Markers == {"MF", "MH"}

IsFamilyInstance(m) == m = "MF"

IsElevationMarker(m) == m = "MH"

\* orientation_adjustment_degrees
orientation_adjustment_degrees == 45

\* abs(marker_loc.X) < 50 and abs(marker_loc.Y) < 50
NearOriginLimit == 50

Abs(x) == IF x < 0 THEN 0 - x ELSE x

\* any(keyword in family_name for keyword in keywords)
NameHasAny(name, keywords) == name \cap keywords # {}

is_default_elevation_marker(mk, m) ==
    IF IsElevationMarker(m)
    THEN \/ mk.dirView[m]
         \/ /\ Abs(mk.pos[m][1]) < NearOriginLimit
            /\ Abs(mk.pos[m][2]) < NearOriginLimit
    ELSE IsFamilyInstance(m) /\ NameHasAny(mk.name[m], {"default", "system"})

\* final_elevation_list of update_elevation_markers_v3
ElevationList(mk) ==
    {m \in Markers :
        \/ IsElevationMarker(m)
        \/ mk.cat[m]
        \/ IsFamilyInstance(m)
             /\ NameHasAny(mk.name[m], {"elevation", "marker", "callout"})}

\* section_markers of update_section_views_v3
SectionMarkerList(mk) ==
    {m \in Markers :
        IsFamilyInstance(m)
          /\ NameHasAny(mk.name[m], {"section", "callout", "detail", "marker"})}

\* Location.Point = transform.OfPoint(old_point), then RotateElement by the
\* orientation adjustment about the new point.  r = [mk, count].
PointMarkerStep(r, m, T) ==
    LET moved == [r.mk EXCEPT !.pos[m] = OfPoint(T, @), !.moves[m] = @ + 1]
    IN  IF m \in env.mRotFail
        THEN [r EXCEPT !.mk = moved]
        ELSE [mk    |-> [moved EXCEPT
                            !.ori[m] = NormAngle(@ + orientation_adjustment_degrees),
                            !.fixes[m] = @ + 1],
              count |-> r.count + 1]

\* MoveElement by transform.Origin, RotateElement about the building
\* center, then the orientation adjustment about the marker's own center
HubMarkerStep(r, m, T, deg, c) ==
    IF m \in env.mMoveFail THEN r
    ELSE LET moved == [r.mk EXCEPT !.pos[m] = Add(@, T.origin), !.moves[m] = @ + 1]
         IN  IF m \in env.mRotFail
             THEN [r EXCEPT !.mk = moved]
             ELSE [mk    |-> [moved EXCEPT
                                 !.pos[m] = RotAbout(@, deg, c),
                                 !.ori[m] = NormAngle(@ + deg + orientation_adjustment_degrees),
                                 !.fixes[m] = @ + 1],
                   count |-> r.count + 1]

MarkerOrder == <<"MH", "MF">>

RECURSIVE ElevationEach(_, _, _, _, _)
ElevationEach(r, ms, T, deg, c) ==
    IF ms = <<>> THEN r
    ELSE LET m == Head(ms)
         IN  ElevationEach(
                 IF IsFamilyInstance(m) THEN PointMarkerStep(r, m, T)
                 ELSE HubMarkerStep(r, m, T, deg, c),
                 Tail(ms), T, deg, c)

\* Returns [mk, count]: the markers and updated_count
update_elevation_markers_v3(mk, T, deg, c) ==
    LET user_markers ==
            SelectSeq(MarkerOrder,
                      LAMBDA m : m \in ElevationList(mk)
                                   /\ ~is_default_elevation_marker(mk, m))
    IN  ElevationEach([mk |-> mk, count |-> 0], user_markers, T, deg, c)

RECURSIVE SectionMarkerEach(_, _, _)
SectionMarkerEach(r, ms, T) ==
    IF ms = <<>> THEN r
    ELSE SectionMarkerEach(PointMarkerStep(r, Head(ms), T), Tail(ms), T)

\* The marker loop of update_section_views_v3
update_section_markers(mk, T) ==
    SectionMarkerEach([mk |-> mk, count |-> 0],
                      SelectSeq(MarkerOrder, LAMBDA m : m \in SectionMarkerList(mk)),
                      T).mk

(***************************************************************************)
(* Views.  "SV" is a section view, "PV" a plan view.  A crop box is        *)
(* [min, max, origin, bx, by, bz]; a section box is [min, max].            *)
(***************************************************************************)
Views == {"SV", "PV"}

\* Mutation: only BasisX is rotated
TransformCropBoxRotatesXOnly(crop, T) ==
    [min    |-> crop.min,
     max    |-> crop.max,
     origin |-> OfPoint(T, crop.origin),
     bx     |-> IF ~IsTranslation(T) THEN OfVector(T, crop.bx) ELSE crop.bx,
     by     |-> crop.by,
     bz     |-> crop.bz]

\* The new crop box: same Min and Max, moved origin, basis rotated when the
\* transform is not a pure translation
TransformCropBox(crop, T) ==
    [min    |-> crop.min,
     max    |-> crop.max,
     origin |-> OfPoint(T, crop.origin),
     bx     |-> IF ~IsTranslation(T) THEN OfVector(T, crop.bx) ELSE crop.bx,
     by     |-> IF ~IsTranslation(T) THEN OfVector(T, crop.by) ELSE crop.by,
     bz     |-> IF ~IsTranslation(T) THEN OfVector(T, crop.bz) ELSE crop.bz]

\* Method 2 of update_section_views_v3
TransformSectionBox(sbox, T) ==
    [min |-> OfPoint(T, sbox.min), max |-> OfPoint(T, sbox.max)]

\* Mutation: Method 2 does not look at view_updated
SectionViewStepBothPaths(vw, v, T) ==
    IF vw.isTemplate THEN vw
    ELSE LET primary == vw.cropActive /\ v \notin env.cropFail
             v1 == IF primary
                   THEN [vw EXCEPT !.crop = TransformCropBox(@, T),
                                   !.paths = @ \cup {"primary"},
                                   !.counted = @ + 1]
                   ELSE vw
         IN  IF vw.hasSectionBox
             THEN [v1 EXCEPT !.sbox = TransformSectionBox(@, T),
                             !.paths = @ \cup {"fallback"},
                             !.counted = @ + 1]
             ELSE v1

\* One section view; returns the view after the two methods
SectionViewStep(vw, v, T) ==
    IF vw.isTemplate THEN vw
    ELSE LET primary == vw.cropActive /\ v \notin env.cropFail
             v1 == IF primary
                   THEN [vw EXCEPT !.crop = TransformCropBox(@, T),
                                   !.paths = @ \cup {"primary"},
                                   !.counted = @ + 1]
                   ELSE vw
         IN  IF ~primary /\ vw.hasSectionBox
             THEN [v1 EXCEPT !.sbox = TransformSectionBox(@, T),
                             !.paths = @ \cup {"fallback"},
                             !.counted = @ + 1]
             ELSE v1

\* One plan view; the crop region is reset when the crop box update raises
PlanViewStep(vw, v, T) ==
    IF vw.isTemplate \/ ~vw.cropActive THEN vw
    ELSE IF v \notin env.cropFail
         THEN [vw EXCEPT !.crop = TransformCropBox(@, T),
                         !.paths = @ \cup {"primary"},
                         !.counted = @ + 1]
         ELSE [vw EXCEPT !.shapeReset = TRUE]

(***************************************************************************)
(* Annotations                                                             *)
(***************************************************************************)
Annots == {"A1", "A2"}

\* Returns [an, count]: the annotations and the returned count
update_annotations_v3(an, T) ==
    IF IsTranslation(T)
    THEN IF env.annFail # {}
         THEN [an |-> an, count |-> 0]
         ELSE [an    |-> [an EXCEPT !.pos = [a \in Annots |-> Add(an.pos[a], T.origin)]],
               count |-> Cardinality(Annots)]
    ELSE [an    |-> [an EXCEPT !.pos =
                        [a \in Annots |->
                            IF an.hasLoc[a] /\ a \notin env.annFail
                            THEN OfPoint(T, an.pos[a]) ELSE an.pos[a]]],
          count |-> Cardinality(Annots)]

(***************************************************************************)
(* Initial states: the arguments of the command, the document and what the *)
(* document will reject.                                                   *)
(***************************************************************************)
Translations == {Zero3, <<50, 50, 0>>}

Angles == {0, 90, -90}

\* rotation_origin: None, or a point
Origins == {[given |-> FALSE, at |-> Zero3],
            [given |-> TRUE,  at |-> Zero3],
            [given |-> TRUE,  at |-> <<2, 0, 0>>]}

AtMostOne(S) == {X \in SUBSET S : Cardinality(X) <= 1}

\* W1 runs from (10,0,0) to (12,0,0); W2 starts at W1's end or far away,
\* at a right angle to W1, or is joined to W1 and runs back along it (a
\* wall drawn over W1)
ElemStates ==
    {d \in {[exists |-> [e \in Elems |-> TRUE],
      pos    |-> [e \in Elems |->
                     CASE e = "W1" -> <<10, 0, 0>>
                       [] e = "W2" -> IF near THEN <<12, 0, 0>> ELSE <<20, 4, 0>>
                       [] e = "F"  -> <<4, 6, 0>>
                       [] e = "D"  -> <<11, 0, 0>>],
      ori    |-> [e \in Elems |-> IF e = "W2" THEN w2ori ELSE 0],
      joined |-> IF near /\ j THEN {{"W1", "W2"}} ELSE {}] :
        near \in BOOLEAN, j \in BOOLEAN, w2ori \in {90, 180}} :
        d.ori["W2"] = 180 => d.joined # {}}

ElemStatesNarrow == {d \in ElemStates : d.joined # {} /\ d.ori["W2"] = 90}

\* A document in which the collectors of get_model_elements find nothing
EmptyDocument ==
    [exists |-> [e \in Elems |-> FALSE],
     pos    |-> [e \in Elems |-> Zero3],
     ori    |-> [e \in Elems |-> 0],
     joined |-> {}]

FamilyNames == {{"elevation"}, {"marker"}, {"section"}, {"default", "marker"},
                {"system", "elevation"}, {"furniture"}}

MarkerStates ==
    {[pos     |-> [m \in Markers |-> IF m = "MF" THEN <<6, 2, 0>> ELSE hub],
      ori     |-> [m \in Markers |-> 0],
      name    |-> [m \in Markers |-> IF m = "MF" THEN nm ELSE {}],
      cat     |-> [m \in Markers |-> m = "MF" /\ c],
      dirView |-> [m \in Markers |-> m = "MH" /\ dv],
      moves   |-> [m \in Markers |-> 0],
      fixes   |-> [m \in Markers |-> 0]] :
        nm \in FamilyNames, c \in BOOLEAN, dv \in BOOLEAN,
        hub \in {<<10, 10, 0>>, <<60, 0, 0>>}}

MarkerStatesNarrow ==
    {mk \in MarkerStates :
        /\ mk.name["MF"] = {"elevation"} /\ ~mk.cat["MF"]
        /\ ~mk.dirView["MH"] /\ mk.pos["MH"] = <<60, 0, 0>>}

Frames == {[bx |-> <<1, 0, 0>>, by |-> <<0, 1, 0>>, bz |-> <<0, 0, 1>>],
           [bx |-> <<0, 1, 0>>, by |-> <<0, 0, 1>>, bz |-> <<1, 0, 0>>]}

ViewState(tp, ca, sb, f) ==
    [isTemplate    |-> tp,
     cropActive    |-> ca,
     hasSectionBox |-> sb,
     crop   |-> [min |-> <<-4, -2, 0>>, max |-> <<4, 2, 6>>,
                 origin |-> <<8, 2, 0>>,
                 bx |-> f.bx, by |-> f.by, bz |-> f.bz],
     sbox   |-> [min |-> <<0, 0, 0>>, max |-> <<6, 4, 2>>],
     paths  |-> {},
     counted |-> 0,
     shapeReset |-> FALSE]

\* A template, or a view with or without an active crop box and section box
ViewChoices(sectionBoxes) ==
    {ViewState(TRUE, TRUE, FALSE, CHOOSE f \in Frames : f.bx = <<1, 0, 0>>)}
    \cup {ViewState(FALSE, ca, sb, f) :
              ca \in BOOLEAN, sb \in sectionBoxes, f \in Frames}

ViewStates ==
    {[v \in Views |-> IF v = "SV" THEN sv ELSE pv] :
        sv \in ViewChoices(BOOLEAN), pv \in ViewChoices({FALSE})}

ViewStatesNarrow ==
    {vs \in ViewStates :
        \A v \in Views : /\ ~vs[v].isTemplate /\ vs[v].cropActive
                         /\ ~vs[v].hasSectionBox
                         /\ vs[v].crop.bx = <<1, 0, 0>>}

AnnotStates ==
    {[pos    |-> [a \in Annots |-> IF a = "A1" THEN <<3, 3, 0>> ELSE <<7, 1, 0>>],
      hasLoc |-> [a \in Annots |-> a = "A1" \/ h]] : h \in BOOLEAN}

AnnotStatesNarrow == {an \in AnnotStates : an.hasLoc["A2"]}

NoFailure ==
    [rotFail |-> {}, moveFail |-> {}, fragile |-> {}, joinRejects |-> {},
     noPoint |-> {}, composeFails |-> FALSE, mRotFail |-> {}, mMoveFail |-> {},
     cropFail |-> {}, annFail |-> {}, joinTransient |-> "none",
     bulkMoveFails |-> FALSE]

\* Up to MaxFaults departures from the regular document at once (a rejected
\* call, an invalidated element, a floor without a location point), or a
\* failing composition, or a MoveElements call that is rejected for the batch
\* while every element of it can be moved alone
EnvElems ==
    {e \in {[NoFailure EXCEPT !.rotFail = rf, !.moveFail = mf, !.fragile = fr,
                              !.joinRejects = jr, !.noPoint = np,
                              !.joinTransient = jt] :
                rf \in AtMostOne(Elems), mf \in AtMostOne(Elems),
                fr \in SUBSET {"W2"}, jr \in SUBSET {{"W1", "W2"}},
                np \in SUBSET {"F"},
                jt \in {"none", "clean", "direct"}} :
        Cardinality(e.rotFail) + Cardinality(e.moveFail) + Cardinality(e.fragile)
            + Cardinality(e.joinRejects) + Cardinality(e.noPoint)
            + (IF e.joinTransient # "none" THEN 1 ELSE 0) <= MaxFaults}
    \cup {[NoFailure EXCEPT !.composeFails = TRUE]}
    \cup {[NoFailure EXCEPT !.bulkMoveFails = TRUE]}

EnvMarkers ==
    {[NoFailure EXCEPT !.mRotFail = rf, !.mMoveFail = mf] :
        rf \in AtMostOne(Markers), mf \in SUBSET {"MH"}}

EnvViews == {[NoFailure EXCEPT !.cropFail = cf] : cf \in SUBSET Views}

EnvAnnots == {[NoFailure EXCEPT !.annFail = af] : af \in AtMostOne(Annots)}

InitTe ==
    [element_ids |-> <<>>, regular |-> <<>>, sketch |-> <<>>, hosted |-> <<>>,
     wall_joins |-> <<>>, transformed_count |-> 0,
     tally |-> [e \in Elems |-> 0], calls |-> <<>>,
     restore |-> [restored_count |-> 0, counted |-> <<>>, reported |-> {},
                  attempts |-> <<>>]]

InitOut ==
    [result |-> "none", tx |-> "none", transformed_count |-> 0,
     elevation_count |-> 0, section_count |-> 0, plan_count |-> 0,
     annotation_count |-> 0]

\* The document as the invocation found it, and as the first one found it
Snapshot(orig) ==
    [elems |-> elems, markers |-> markers, views |-> views, annots |-> annots,
     orig |-> orig, beforeRestore |-> {}]

InitWith(E, M, V, A, Env) ==
    /\ pc = "main"
    /\ run = 1
    /\ args \in [t : Translations, deg : Angles, origin : Origins]
    /\ center = Zero3
    /\ combined = CreateTranslation(Zero3)
    /\ env \in Env
    /\ elems \in E
    /\ te = InitTe
    /\ markers \in M
    /\ views \in V
    /\ annots \in A
    /\ out = InitOut
    /\ ghost = Snapshot([elems |-> elems, markers |-> markers, args |-> args])

Init == InitWith(ElemStates \cup {EmptyDocument}, MarkerStatesNarrow, ViewStatesNarrow,
                 AnnotStatesNarrow, EnvElems)

InitMarkers == InitWith(ElemStatesNarrow, MarkerStates, ViewStatesNarrow,
                        AnnotStatesNarrow, EnvMarkers)

InitViews == InitWith(ElemStatesNarrow, MarkerStatesNarrow, ViewStates,
                      AnnotStatesNarrow, EnvViews)

InitAnnots == InitWith(ElemStatesNarrow, MarkerStatesNarrow, ViewStatesNarrow,
                       AnnotStates, EnvAnnots)

(***************************************************************************)
(* The steps of transform_model_and_views_v3                               *)
(***************************************************************************)
\* Mutation: the transform is composed inside the transaction
ComposeInsideTransaction ==
    /\ pc = "main"
    /\ LET ids == get_model_elements(elems)
           c   == IF args.origin.given THEN args.origin.at
                  ELSE calculate_building_center(elems, ids)
       IN  /\ center' = c
           /\ te' = [te EXCEPT !.element_ids = ids]
           /\ IF env.composeFails
              THEN /\ combined' = combined
                   /\ out' = [out EXCEPT !.result = "False", !.tx = "committed"]
                   /\ pc' = "done"
              ELSE /\ combined' = ComposeTransform(args.t, args.deg, c)
                   /\ out' = out
                   /\ pc' = "tx"
    /\ UNCHANGED <<run, args, env, elems, markers, views, annots, ghost>>

\* Lines 1198-1223: the elements, the rotation origin and the transform.
\* An exception while composing is caught by the outer handler.
Compose ==
    /\ pc = "main"
    /\ LET ids == get_model_elements(elems)
           c   == IF args.origin.given THEN args.origin.at
                  ELSE calculate_building_center(elems, ids)
       IN  /\ center' = c
           /\ te' = [te EXCEPT !.element_ids = ids]
           /\ IF env.composeFails
              THEN /\ combined' = combined
                   /\ out' = [out EXCEPT !.result = "False"]
                   /\ pc' = "done"
              ELSE /\ combined' = ComposeTransform(args.t, args.deg, c)
                   /\ out' = out
                   /\ pc' = "tx"
    /\ UNCHANGED <<run, args, env, elems, markers, views, annots, ghost>>

\* with revit.Transaction(...): and the test for an empty element list
BeginTransaction ==
    /\ pc = "tx"
    /\ IF te.element_ids = <<>>
       THEN /\ out' = [out EXCEPT !.tx = "committed", !.result = "False"]
            /\ pc' = "done"
       ELSE /\ out' = [out EXCEPT !.tx = "open"]
            /\ pc' = "te_start"
    /\ UNCHANGED <<run, args, center, combined, env, elems, te, markers, views,
                   annots, ghost>>

\* Mutation: the joins are recorded after the regular elements are rotated
TE_StartStoresAfterRotation ==
    /\ pc = "te_start"
    /\ LET ids     == te.element_ids
           regular == SelectSeq(ids, LAMBDA e : ~(elems.exists[e] /\ IsSketch(e)))
           moved   == RotateEach(elems, regular, center, args.deg)
       IN  /\ elems' = moved
           /\ te' = [te EXCEPT
                        !.sketch  = SelectSeq(ids, LAMBDA e : elems.exists[e] /\ IsSketch(e)),
                        !.regular = regular,
                        !.wall_joins = store_wall_joins(moved, regular),
                        !.transformed_count = 0,
                        !.tally = [e \in Elems |-> 0]]
    /\ pc' = "te_rotate"
    /\ UNCHANGED <<run, args, center, combined, env, markers, views,
                   annots, out, ghost>>

\* transform_elements_robust, lines 333-357
TE_Start ==
    /\ pc = "te_start"
    /\ LET ids     == te.element_ids
           regular == SelectSeq(ids, LAMBDA e : ~(elems.exists[e] /\ IsSketch(e)))
       IN  te' = [te EXCEPT
                    !.sketch  = SelectSeq(ids, LAMBDA e : elems.exists[e] /\ IsSketch(e)),
                    !.regular = regular,
                    !.wall_joins = store_wall_joins(elems, regular),
                    !.transformed_count = 0,
                    !.tally = [e \in Elems |-> 0],
                    !.calls = <<>>]
    /\ pc' = "te_rotate"
    /\ UNCHANGED <<run, args, center, combined, env, elems, markers, views,
                   annots, out, ghost>>

\* The test of line 361; rotation_origin is never None here
RotationRequested == args.deg # 0

\* Lines 403-424: the non-hosted regular elements
TE_RotateNonHosted ==
    /\ pc = "te_rotate"
    /\ LET sep == separate_hosted_elements(elems, te.regular)
       IN  /\ te' = [te EXCEPT !.hosted = sep.hosted]
           /\ elems' = IF RotationRequested
                       THEN RotateBatch(elems, sep.non_hosted, center, args.deg)
                       ELSE elems
    /\ pc' = "te_rotate_hosted"
    /\ UNCHANGED <<run, args, center, combined, env, markers, views, annots,
                   out, ghost>>

\* Lines 426-439: the hosted regular elements
TE_RotateHosted ==
    /\ pc = "te_rotate_hosted"
    /\ elems' = IF RotationRequested
                THEN RotateBatch(elems, te.hosted, center, args.deg)
                ELSE elems
    /\ pc' = "te_sketch"
    /\ UNCHANGED <<run, args, center, combined, env, te, markers, views,
                   annots, out, ghost>>

\* Lines 465-534: the sketch-based elements, inside the rotation block
TE_Sketch ==
    /\ pc = "te_sketch"
    /\ LET st == IF RotationRequested
                 THEN SketchEach([d |-> elems, count |-> te.transformed_count,
                                  tally |-> te.tally, calls |-> te.calls],
                                 te.sketch)
                 ELSE [d |-> elems, count |-> te.transformed_count,
                       tally |-> te.tally, calls |-> te.calls]
       IN  /\ elems' = st.d
           /\ te' = [te EXCEPT !.transformed_count = st.count, !.tally = st.tally,
                               !.calls = st.calls]
    /\ pc' = "te_translate"
    /\ UNCHANGED <<run, args, center, combined, env, markers, views, annots,
                   out, ghost>>

\* Lines 536-565
TE_Translate ==
    /\ pc = "te_translate"
    /\ LET st == TranslateValid([d |-> elems, count |-> te.transformed_count,
                                 tally |-> te.tally, calls |-> te.calls],
                                te.element_ids)
       IN  /\ elems' = st.d
           /\ te' = [te EXCEPT !.transformed_count = st.count, !.tally = st.tally,
                               !.calls = st.calls]
    /\ pc' = "te_clean"
    /\ UNCHANGED <<run, args, center, combined, env, markers, views, annots,
                   out, ghost>>

\* Line 568
TE_Clean ==
    /\ pc = "te_clean"
    /\ elems' = clean_wall_constraints(elems, te.element_ids)
    /\ pc' = "te_restore"
    /\ UNCHANGED <<run, args, center, combined, env, te, markers, views,
                   annots, out, ghost>>

\* Lines 569-572: restore_wall_joins and the return of transformed_count
TE_Restore ==
    /\ pc = "te_restore"
    /\ LET r == restore_wall_joins(elems, te.wall_joins)
       IN  /\ elems' = r.d
           /\ te' = [te EXCEPT !.restore =
                        [restored_count |-> r.restored_count, counted |-> r.counted,
                         reported |-> r.reported, attempts |-> r.attempts]]
    /\ out' = [out EXCEPT !.transformed_count = te.transformed_count]
    /\ ghost' = [ghost EXCEPT !.beforeRestore = elems.joined]
    /\ pc' = "markers"
    /\ UNCHANGED <<run, args, center, combined, env, markers, views, annots>>

\* Line 1240
ElevationMarkerPass ==
    /\ pc = "markers"
    /\ LET r == update_elevation_markers_v3(markers, combined, args.deg, center)
       IN  /\ markers' = r.mk
           /\ out' = [out EXCEPT !.elevation_count = r.count]
    /\ pc' = "regenerate"
    /\ UNCHANGED <<run, args, center, combined, env, elems, te, views, annots,
                   ghost>>

\* Line 1244: document.Regenerate()
Regenerate ==
    /\ pc = "regenerate"
    /\ pc' = "sections"
    /\ UNCHANGED <<run, args, center, combined, env, elems, te, markers, views,
                   annots, out, ghost>>

\* Line 1246: update_section_views_v3, markers first, then the views
SectionPass ==
    /\ pc = "sections"
    /\ markers' = update_section_markers(markers, combined)
    /\ views' = [views EXCEPT !["SV"] = SectionViewStep(@, "SV", combined)]
    /\ out' = [out EXCEPT !.section_count = views'["SV"].counted - views["SV"].counted]
    /\ pc' = "plans"
    /\ UNCHANGED <<run, args, center, combined, env, elems, te, annots, ghost>>

\* Line 1247: update_plan_views_v3
PlanPass ==
    /\ pc = "plans"
    /\ views' = [views EXCEPT !["PV"] = PlanViewStep(@, "PV", combined)]
    /\ out' = [out EXCEPT !.plan_count = views'["PV"].counted - views["PV"].counted]
    /\ pc' = "annotations"
    /\ UNCHANGED <<run, args, center, combined, env, elems, te, markers, annots,
                   ghost>>

\* Line 1250
AnnotationPass ==
    /\ pc = "annotations"
    /\ LET r == update_annotations_v3(annots, combined)
       IN  /\ annots' = r.an
           /\ out' = [out EXCEPT !.annotation_count = r.count]
    /\ pc' = "summary"
    /\ UNCHANGED <<run, args, center, combined, env, elems, te, markers, views,
                   ghost>>

\* Lines 1252-1262: the transaction commits and the command returns True
Finish ==
    /\ pc = "summary"
    /\ out' = [out EXCEPT !.tx = "committed", !.result = "True"]
    /\ pc' = "done"
    /\ UNCHANGED <<run, args, center, combined, env, elems, te, markers, views,
                   annots, ghost>>

\* The arguments that make the next rigid transform the inverse of this one:
\* rotation -deg about the same center, translation -R(-deg) t
InverseArgs ==
    [t      |-> Sub(Zero3, RotVec(args.t, 0 - args.deg)),
     deg    |-> 0 - args.deg,
     origin |-> [given |-> TRUE, at |-> center]]

\* The user runs the command again, with the inverse transform
RunInverse ==
    /\ pc = "done"
    /\ out.result = "True"
    /\ run < MaxRuns
    /\ run' = run + 1
    /\ args' = InverseArgs
    /\ te' = InitTe
    /\ out' = InitOut
    /\ ghost' = Snapshot(ghost.orig)
    /\ pc' = "main"
    /\ UNCHANGED <<center, combined, env, elems, markers, views, annots>>

Next ==
    \/ Compose
    \/ BeginTransaction
    \/ TE_Start
    \/ TE_RotateNonHosted
    \/ TE_RotateHosted
    \/ TE_Sketch
    \/ TE_Translate
    \/ TE_Clean
    \/ TE_Restore
    \/ ElevationMarkerPass
    \/ Regenerate
    \/ SectionPass
    \/ PlanPass
    \/ AnnotationPass
    \/ Finish
    \/ RunInverse

Spec == Init /\ [][Next]_vars

SpecMarkers == InitMarkers /\ [][Next]_vars

SpecViews == InitViews /\ [][Next]_vars

SpecAnnots == InitAnnots /\ [][Next]_vars

(***************************************************************************)
(* Properties                                                              *)
(***************************************************************************)
Finished == pc = "done" /\ out.result = "True"

Regular == {e \in Elems : ~IsSketch(e)}

\* No rotate or move call on a model element is rejected, none is invalidated
NoElementFailure ==
    /\ env.rotFail = {} /\ env.moveFail = {} /\ env.fragile = {}
    /\ ~env.bulkMoveFails

\* No call on a regular element and no join call is rejected
NoRegularFailure ==
    /\ (env.rotFail \cup env.moveFail \cup env.fragile) \cap Regular = {}
    /\ env.joinRejects = {}
    /\ env.joinTransient = "none"
    /\ ~env.bulkMoveFails

\* C1: after a run with a non-zero rotation in which no per-element
\* operation failed, every regular element is at
\* rotate(p, angle, axis through the center) + t, p its position before.
C1_RotateThenTranslate ==
    (Finished /\ args.deg # 0 /\ NoElementFailure) =>
        \A e \in Regular :
            elems.pos[e] =
                Add(RotAbout(ghost.elems.pos[e], args.deg, center), args.t)

\* C2: with rotation 0 and a non-zero translation t, when the document
\* rejects no call on a regular element and no join, every regular element
\* has moved by exactly t, every pair of walls joined before is joined, and
\* every stored join record is counted as restored.
C2_ScenarioA ==
    (Finished /\ args.deg = 0 /\ args.t # Zero3 /\ NoRegularFailure) =>
        /\ \A e \in Regular : elems.pos[e] = Add(ghost.elems.pos[e], args.t)
        /\ ghost.elems.joined \subseteq elems.joined
        /\ \A i \in DOMAIN te.wall_joins : te.restore.counted[i] = 1
        /\ te.restore.reported = {}
        /\ Len(te.wall_joins) = Cardinality(ghost.elems.joined)

C2_Witness ==
    /\ Finished /\ run = 1
    /\ args.deg = 0 /\ args.t = <<50, 50, 0>> /\ NoRegularFailure
    /\ elems.pos["W1"] = <<60, 50, 0>>
    /\ Len(te.wall_joins) = 1
    /\ {"W1", "W2"} \in elems.joined

\* C3: with rotation 90 about (0,0,0) and no translation, when the document
\* rejects no call on a regular element and no join, a regular element that
\* was at (10,0,0) is at (0,10,0), and every join record involving it whose
\* two walls exist is joined after the restoration.
C3_ScenarioB ==
    (Finished /\ args.deg = 90 /\ center = Zero3 /\ args.t = Zero3
        /\ NoRegularFailure) =>
        \A e \in Regular :
            ghost.elems.pos[e] = <<10, 0, 0>> =>
                /\ elems.pos[e] = <<0, 10, 0>>
                /\ \A i \in DOMAIN te.wall_joins :
                      LET a == te.wall_joins[i][1]
                          b == te.wall_joins[i][2]
                      IN  (e \in {a, b} /\ elems.exists[a] /\ elems.exists[b])
                              => {a, b} \in elems.joined

C3_Witness ==
    /\ Finished /\ run = 1
    /\ args.deg = 90 /\ center = Zero3 /\ args.t = Zero3 /\ NoRegularFailure
    /\ ghost.elems.pos["W1"] = <<10, 0, 0>>
    /\ elems.pos["W1"] = <<0, 10, 0>>
    /\ te.wall_joins = <<(<<"W1", "W2">>)>>
    /\ {"W1", "W2"} \in elems.joined

\* C4: a sketch-bound element whose translation is accepted and whose
\* rotation is rejected ends translated and not rotated, the run completes,
\* and the returned count has counted that element exactly once.
C4_PartialSuccessCountedOnce ==
    (pc = "markers" /\ args.deg # 0 /\ combined.origin # Zero3) =>
        \A e \in Elems :
            (IsSketch(e) /\ e \in env.rotFail /\ e \notin env.moveFail
                /\ ghost.elems.exists[e]) =>
                /\ elems.pos[e] # ghost.elems.pos[e]
                /\ elems.ori[e] = ghost.elems.ori[e]
                /\ te.tally[e] = 1

\* C5: a marker that is_default_elevation_marker classifies as default has,
\* in every state of the run, the position and orientation it had when the
\* run started.
C5_DefaultMarkerUnchanged ==
    \A m \in Markers :
        is_default_elevation_marker(ghost.markers, m) =>
            /\ markers.pos[m] = ghost.markers.pos[m]
            /\ markers.ori[m] = ghost.markers.ori[m]

\* C6: at the end of the run every non-default family-instance marker is at
\* combined_transform applied once to the position it had at the start.
C6_PointMarkerMovedOnce ==
    Finished =>
        \A m \in Markers :
            (IsFamilyInstance(m)
                /\ m \in ElevationList(ghost.markers) \cup SectionMarkerList(ghost.markers)
                /\ ~is_default_elevation_marker(ghost.markers, m)) =>
                markers.pos[m] = OfPoint(combined, ghost.markers.pos[m])

\* C7: after a run and a second run with the inverse rigid transform, with
\* no per-element operation failing, every regular and every sketch-bound
\* element is at the position it had before the first run.
C7_InverseRestores ==
    (Finished /\ run = 2 /\ NoElementFailure) =>
        \A e \in Elems : elems.pos[e] = ghost.orig.elems.pos[e]

Orthonormal(crop) ==
    /\ Dot(crop.bx, crop.bx) = 1 /\ Dot(crop.by, crop.by) = 1
    /\ Dot(crop.bz, crop.bz) = 1
    /\ Dot(crop.bx, crop.by) = 0 /\ Dot(crop.by, crop.bz) = 0
    /\ Dot(crop.bx, crop.bz) = 0

\* C8: whenever the crop box of a view has been updated and its basis was
\* orthonormal when the run started, its basis is orthonormal.
C8_CropBasisOrthonormal ==
    \A v \in Views :
        ("primary" \in views[v].paths /\ Orthonormal(ghost.views[v].crop))
            => Orthonormal(views[v].crop)

C8_Witness ==
    /\ Finished
    /\ args.deg = 90
    /\ \A v \in Views :
          /\ "primary" \in views[v].paths
          /\ views[v].crop.bx # ghost.views[v].crop.bx
          /\ views[v].crop.origin # ghost.views[v].crop.origin

\* JoinGeometry on the two walls is accepted by the document
DirectJoinAccepted(d, a, b) ==
    Touching(d, a, b) /\ {a, b} \notin env.joinRejects

\* C9: after restore_wall_joins, a record whose two walls exist and for
\* which a direct join is accepted is joined; a record whose walls exist,
\* were not joined, are farther apart than the tolerance and cannot be joined
\* is reported as failed, not counted and not joined; a record with a
\* missing wall has caused no join call, no count and no report.
C9_RestoreOutcome ==
    pc = "markers" =>
        \A i \in DOMAIN te.wall_joins :
            LET a    == te.wall_joins[i][1]
                b    == te.wall_joins[i][2]
                both == elems.exists[a] /\ elems.exists[b]
            IN  /\ (both /\ DirectJoinAccepted(elems, a, b)) =>
                       ({a, b} \in elems.joined /\ te.restore.counted[i] = 1)
                /\ (both /\ ~EndsCloser(elems, a, b, 1)
                         /\ {a, b} \notin ghost.beforeRestore) =>
                       /\ i \in te.restore.reported
                       /\ te.restore.counted[i] = 0
                       /\ te.restore.attempts[i] = 1
                       /\ {a, b} \notin elems.joined
                /\ ~both =>
                       /\ te.restore.attempts[i] = 0
                       /\ te.restore.counted[i] = 0
                       /\ i \notin te.restore.reported

C9_Witness ==
    /\ pc = "markers"
    /\ te.wall_joins = <<(<<"W1", "W2">>)>>
    /\ elems.exists["W1"] /\ elems.exists["W2"]
    /\ ~EndsCloser(elems, "W1", "W2", 1)
    /\ 1 \in te.restore.reported
    /\ te.restore.restored_count = 0

Document == <<elems, markers, views, annots>>

\* C10: a run whose composition fails ends with failure, without a
\* transaction and with the document as it was; and every step that changes
\* the document is taken while the transaction is open.
C10_ComposeFailureIsClean ==
    /\ []((pc = "done" /\ env.composeFails) =>
            /\ out.result = "False"
            /\ out.tx = "none"
            /\ Document = <<ghost.elems, ghost.markers, ghost.views, ghost.annots>>)
    /\ [][(Document' # Document) => (out.tx = "open" /\ out'.tx = "open")]_vars
    /\ [][(out'.tx = "open" /\ out.tx # "open") => out.tx = "none"]_vars

C10_Witness ==
    /\ pc = "done"
    /\ env.composeFails
    /\ out.result = "False"
    /\ out.tx = "none"

\* C11: the command returns False only when the composition of the
\* transform failed; with an empty candidate element set or with rejected
\* element calls it returns True.
C11_FalseOnlyOnCompositionFailure ==
    pc = "done" =>
        /\ out.result \in {"True", "False"}
        /\ (out.result = "False") <=> env.composeFails

\* The rotation of the regular elements of this run is over
RotationDone ==
    \/ pc \in {"te_sketch", "te_translate", "te_clean", "te_restore", "markers",
               "regenerate", "sections", "plans", "annotations", "summary"}
    \/ Finished

\* The translation of this run is over
TranslationDone ==
    \/ pc \in {"te_clean", "te_restore", "markers", "regenerate", "sections",
               "plans", "annotations", "summary"}
    \/ Finished

\* Where the rotation step of this run has left the element
AfterRotation(e) ==
    IF RotationRequested /\ e \notin env.rotFail
    THEN RotAbout(ghost.elems.pos[e], args.deg, center)
    ELSE ghost.elems.pos[e]

\* C12: a rejected rotation or translation of one element stops neither the
\* other elements of its batch nor the later phases: every regular element
\* whose own rotation (translation) is accepted has been rotated (moved by
\* the translation vector), and a run that composed its transform over a
\* non-empty element list ends with True after the joins, the markers, the
\* views and the annotations have been processed.
C12_FailuresDoNotAbort ==
    /\ (RotationDone /\ RotationRequested) =>
          \A e \in Regular :
              (ghost.elems.exists[e] /\ e \notin env.rotFail) =>
                  elems.ori[e] = NormAngle(ghost.elems.ori[e] + args.deg)
    /\ (TranslationDone /\ translation_vector # Zero3) =>
          \A e \in Regular :
              (elems.exists[e] /\ e \notin env.moveFail) =>
                  elems.pos[e] = Add(AfterRotation(e), translation_vector)
    /\ (pc = "done" /\ ~env.composeFails /\ te.element_ids # <<>>) =>
          /\ out.result = "True"
          /\ Len(te.restore.counted) = Len(te.wall_joins)
          /\ \A m \in ElevationList(ghost.markers) :
                (~is_default_elevation_marker(ghost.markers, m)
                    /\ m \notin env.mMoveFail) =>
                    markers.moves[m] > ghost.markers.moves[m]
          /\ \A v \in Views :
                (~views[v].isTemplate /\ views[v].cropActive
                    /\ v \notin env.cropFail) =>
                    views[v].counted = ghost.views[v].counted + 1
          /\ out.annotation_count = Cardinality(Annots)

C12_Witness ==
    /\ Finished /\ run = 1
    /\ args.deg = 90 /\ translation_vector # Zero3
    /\ env.rotFail = {"W1"} /\ env.moveFail = {"D"}
    /\ elems.ori["W1"] = ghost.elems.ori["W1"]
    /\ elems.ori["W2"] = NormAngle(ghost.elems.ori["W2"] + 90)
    /\ elems.pos["D"] = AfterRotation("D")
    /\ elems.pos["W2"] = Add(AfterRotation("W2"), translation_vector)
    /\ markers.moves["MF"] = 1

\* transform_elements_robust has passed store_wall_joins in this run
JoinsStored ==
    \/ pc \in {"te_rotate", "te_rotate_hosted", "te_sketch", "te_translate",
               "te_clean", "te_restore", "markers", "regenerate", "sections",
               "plans", "annotations", "summary"}
    \/ Finished

\* C13: until store_wall_joins has returned, no element of the document has
\* been rotated, moved or joined in this run; and the records it returned
\* are, without repetition, the pairs of walls that were joined in the
\* document as the run found it.
C13_JoinsCapturedFirst ==
    /\ pc \in {"main", "tx", "te_start", "te_rotate"} => elems = ghost.elems
    /\ JoinsStored =>
          /\ {{te.wall_joins[i][1], te.wall_joins[i][2]} :
                  i \in DOMAIN te.wall_joins} = ghost.elems.joined
          /\ Len(te.wall_joins) = Cardinality(ghost.elems.joined)

C13_Witness ==
    /\ pc = "te_clean"
    /\ te.wall_joins = <<(<<"W1", "W2">>)>>
    /\ ghost.elems.joined = {{"W1", "W2"}}
    /\ elems.joined = {}
    /\ elems.pos["W2"] # ghost.elems.pos["W2"]

\* C14: in a run with a non-zero rotation the orientation of a non-hosted
\* regular element changes only in the non-hosted rotation step and that of
\* a hosted one only in the hosted rotation step; when the hosted step
\* starts, every non-hosted regular element that accepts its rotation has
\* been rotated and no hosted element has.
C14_HostsRotatedFirst ==
    /\ []((pc = "te_rotate_hosted" /\ RotationRequested) =>
            \A e \in Regular :
                ghost.elems.exists[e] =>
                    elems.ori[e] =
                        IF HasHost(e) \/ e \in env.rotFail
                        THEN ghost.elems.ori[e]
                        ELSE NormAngle(ghost.elems.ori[e] + args.deg))
    /\ [][\A e \in Regular :
              elems'.ori[e] # elems.ori[e] =>
                  pc = (IF HasHost(e) THEN "te_rotate_hosted" ELSE "te_rotate")]_vars

C14_Witness ==
    /\ pc = "te_sketch"
    /\ args.deg = 90
    /\ te.hosted = <<"D">>
    /\ elems.ori["W1"] = NormAngle(ghost.elems.ori["W1"] + 90)
    /\ elems.ori["D"] = NormAngle(ghost.elems.ori["D"] + 90)

\* Every valid regular element that accepts its move has been translated
RegularTranslated ==
    \A r \in Regular :
        (elems.exists[r] /\ r \notin env.moveFail) =>
            elems.pos[r] = Add(AfterRotation(r), translation_vector)

\* C15: a step of the sketch-based loop that moves or rotates a sketch-bound
\* element is taken when the valid regular elements have been translated,
\* and no sketch-bound element is moved or rotated once the cleaning and
\* restoration of the wall joins have started.
C15_TranslateThenSketchThenJoins ==
    [][/\ (pc = "te_sketch"
            /\ \E e \in Elems :
                  /\ IsSketch(e)
                  /\ \/ elems'.pos[e] # elems.pos[e]
                     \/ elems'.ori[e] # elems.ori[e]) => RegularTranslated
       /\ pc \in {"te_clean", "te_restore"} =>
              \A e \in Elems :
                  IsSketch(e) => /\ elems'.pos[e] = elems.pos[e]
                                 /\ elems'.ori[e] = elems.ori[e]]_vars

\* C16: a step that moves or rotates a marker is taken before
\* document.Regenerate(), and a step that updates a view extent after it.
C16_MarkersBeforeRegeneration ==
    [][/\ (markers' # markers) => pc = "markers"
       /\ (views' # views) => pc \in {"sections", "plans"}]_vars

\* The regular elements of this run whose rotation or translation the
\* document rejected
FailedRegular ==
    {e \in Regular :
        /\ ghost.elems.exists[e]
        /\ \/ RotationRequested /\ e \in env.rotFail
           \/ translation_vector # Zero3 /\ elems.exists[e] /\ e \in env.moveFail}

\* C17: the count returned by transform_elements_robust has counted no
\* regular element whose rotation or translation was rejected, so it is at
\* most the number of elements less the rejected ones.
C17_FailedNotCounted ==
    pc = "markers" =>
        /\ \A e \in FailedRegular : te.tally[e] = 0
        /\ out.transformed_count <= Len(te.element_ids) - Cardinality(FailedRegular)

\* min is component-wise not greater than max
Ordered(box) == \A i \in 1..3 : box.min[i] <= box.max[i]

\* C18: in every state of a run the Min and Max of each view's crop box and
\* of each view's section box are the ones the run found, and Min is
\* component-wise not greater than Max.
C18_ExtentBoundsUnchanged ==
    \A v \in Views :
        /\ views[v].crop.min = ghost.views[v].crop.min
        /\ views[v].crop.max = ghost.views[v].crop.max
        /\ views[v].sbox.min = ghost.views[v].sbox.min
        /\ views[v].sbox.max = ghost.views[v].sbox.max
        /\ Ordered(views[v].crop)
        /\ Ordered(views[v].sbox)

\* The primary path has changed the view in this run
PrimaryChanged(v) == views[v].crop # ghost.views[v].crop

\* The fallback path (section box, or reset of the crop region shape) has
\* changed the view in this run
FallbackChanged(v) ==
    \/ views[v].sbox # ghost.views[v].sbox
    \/ views[v].shapeReset # ghost.views[v].shapeReset

\* C19: in one run no view is changed by both the crop-box path and the
\* fallback path, a view changed by the fallback path has the crop box the
\* run found, a view is counted at most once, and a template is left alone.
C19_OnePathPerView ==
    \A v \in Views :
        /\ ~(PrimaryChanged(v) /\ FallbackChanged(v))
        /\ Cardinality(views[v].paths) <= 1
        /\ views[v].counted <= ghost.views[v].counted + 1
        /\ views[v].isTemplate =>
              ~PrimaryChanged(v) /\ ~FallbackChanged(v)
                  /\ views[v].counted = ghost.views[v].counted

C19_Witness ==
    /\ Finished /\ run = 1
    /\ views["SV"].cropActive /\ "SV" \in env.cropFail
    /\ FallbackChanged("SV") /\ ~PrimaryChanged("SV")
    /\ views["SV"].counted = 1
    /\ views["PV"].cropActive /\ "PV" \notin env.cropFail
    /\ PrimaryChanged("PV") /\ ~FallbackChanged("PV")
    /\ views["PV"].counted = 1

\* C20: for every join record restore_wall_joins has made at most the
\* direct call and one retry; it has retried only a record that it reported
\* as failed and whose walls have endpoints closer than the tolerance; the
\* record was added to the restored count at most once, and the restored
\* count is at most the number of records.
C20_RetryAtMostOnce ==
    pc = "markers" =>
        /\ \A i \in DOMAIN te.wall_joins :
              LET a == te.wall_joins[i][1]
                  b == te.wall_joins[i][2]
              IN  /\ te.restore.attempts[i] <= 2
                  /\ te.restore.attempts[i] >= 2 =>
                        i \in te.restore.reported /\ EndsCloser(elems, a, b, 1)
                  /\ te.restore.counted[i] <= 1
        /\ te.restore.restored_count <= Len(te.wall_joins)

\* Where the rotation and the translation of transform_elements_robust put a
\* regular element that starts at p and accepts both
StructuralImage(p) ==
    Add(RotAbout(p, args.deg, center), translation_vector)

\* C21: after the elevation marker pass of a run with a non-zero rotation,
\* every non-default ElevationMarker hub whose calls were accepted is where a
\* regular element starting at the hub's position would have been put.
C21_HubFollowsStructure ==
    (pc = "regenerate" /\ args.deg # 0) =>
        \A m \in Markers :
            (IsElevationMarker(m)
                /\ ~is_default_elevation_marker(ghost.markers, m)
                /\ m \notin env.mMoveFail \cup env.mRotFail) =>
                markers.pos[m] = StructuralImage(ghost.markers.pos[m])

\* The structural rotation a marker's orientation takes part in: a hub is
\* rotated about the building center, a family instance is only moved
StructuralTurn(m) == IF IsElevationMarker(m) THEN args.deg ELSE 0

\* C22: at the end of a run every non-default marker that was transformed,
\* all its calls accepted, has received the orientation adjustment exactly
\* once: its orientation is the one it had, turned by the structural
\* rotation it takes part in and by orientation_adjustment_degrees.
C22_OrientationCorrectedOnce ==
    Finished =>
        \A m \in Markers :
            (markers.moves[m] > ghost.markers.moves[m]
                /\ ~is_default_elevation_marker(ghost.markers, m)
                /\ m \notin env.mMoveFail \cup env.mRotFail) =>
                /\ markers.fixes[m] = ghost.markers.fixes[m] + 1
                /\ markers.ori[m] =
                      NormAngle(ghost.markers.ori[m] + StructuralTurn(m)
                                    + orientation_adjustment_degrees)

\* The calls of the log that name exactly the element e
CallsOn(op, e) ==
    {i \in DOMAIN te.calls : te.calls[i].op = op /\ te.calls[i].ids = {e}}

\* C23: for a sketch-based element a RotateElement call is made only after a
\* MoveElement call on the same element that was accepted; and when the sketch
\* loop is over, an element whose MoveElement call was rejected has had no
\* RotateElement call and keeps the orientation it had.
C23_SketchTranslateThenRotate ==
    /\ \A e \in Elems : \A j \in CallsOn("RotateElement", e) :
           \E i \in CallsOn("MoveElement", e) : i < j /\ te.calls[i].ok
    /\ pc = "te_translate" =>
           \A e \in SeqSet(te.sketch) :
               (\E i \in CallsOn("MoveElement", e) : ~te.calls[i].ok) =>
                   /\ CallsOn("RotateElement", e) = {}
                   /\ elems.ori[e] = ghost.elems.ori[e]

\* A sketch-based element of a run with a rotation whose translation was
\* rejected, while the rotation itself would have been accepted
C23_Witness ==
    /\ pc = "te_translate"
    /\ args.deg # 0
    /\ \E e \in SeqSet(te.sketch) :
           /\ \E i \in CallsOn("MoveElement", e) : ~te.calls[i].ok
           /\ CanRotate(elems, e)

\* C24: when the sketch loop is over, every RotateElement call made for a
\* sketch-based element had its axis through the element's own position after
\* the translation, whether or not the element has a Location.Point.
C24_SketchRotatedAboutOwnCentroid ==
    pc = "te_translate" =>
        \A e \in SeqSet(te.sketch) : \A j \in CallsOn("RotateElement", e) :
            te.calls[j].at = Add(ghost.elems.pos[e], translation_vector)

\* C25: when the translation step of a run with a non-zero rotation and a zero
\* translation vector is over, every sketch-based element that accepts moves
\* and rotations has been rotated by the requested angle.
C25_SketchRotatedWithoutTranslation ==
    (pc = "te_clean" /\ args.deg # 0 /\ args.t = Zero3) =>
        \A e \in SeqSet(te.sketch) :
            (CanRotate(ghost.elems, e) /\ CanMove(ghost.elems, e)) =>
                elems.ori[e] = NormAngle(ghost.elems.ori[e] + args.deg)

\* The annotations the annotation pass of this run has put somewhere else
AnnotationsTransformed ==
    {a \in Annots : annots.pos[a] # ghost.annots.pos[a]}

\* C26: after the annotation pass of a run whose transform leaves no
\* annotation where it is, the count returned by update_annotations_v3 is the
\* number of annotations that were transformed.
C26_AnnotationCountIsTransformed ==
    (pc = "summary"
        /\ \A a \in Annots :
               OfPoint(combined, ghost.annots.pos[a]) # ghost.annots.pos[a]) =>
        out.annotation_count = Cardinality(AnnotationsTransformed)

\* The midpoint, on each axis, of the union of the bounding boxes of the
\* elements of the document d that are not sketch-based; the document origin
\* when there is no such box
RegularBoxCenter(d) ==
    LET pts == UNION {BoxPoints(d, e) :
                         e \in {x \in Elems : d.exists[x] /\ ~IsSketch(x)}}
        X   == {p[1] : p \in pts}
        Y   == {p[2] : p \in pts}
        Z   == {p[3] : p \in pts}
    IN  IF pts = {} THEN Zero3
        ELSE <<(SetMin(X) + SetMax(X)) \div 2,
               (SetMin(Y) + SetMax(Y)) \div 2,
               (SetMin(Z) + SetMax(Z)) \div 2>>

\* C27: when no rotation center is passed, the center the transform is
\* composed with is the center of the box of the regular elements alone.
C27_CenterOfRegularElements ==
    (pc = "tx" /\ ~args.origin.given) => center = RegularBoxCenter(ghost.elems)

\* The accepted translation calls of the log that moved the element e
TranslationsOf(e) ==
    {i \in DOMAIN te.calls :
        /\ te.calls[i].op \in {"MoveElement", "MoveElements"}
        /\ e \in te.calls[i].ids
        /\ te.calls[i].ok}

\* C28: in one run of transform_elements_robust no element is moved by more
\* than one accepted translation call.
C28_TranslatedAtMostOnce ==
    \A e \in Elems : Cardinality(TranslationsOf(e)) <= 1

\* C29: the count transform_elements_robust returns is at least 0 and at most
\* the number of element ids it was given.
C29_CountWithinInput ==
    pc = "markers" =>
        /\ out.transformed_count >= 0
        /\ out.transformed_count <= Len(te.element_ids)

\* The pairs of walls recorded by store_wall_joins
StoredPairs ==
    {{te.wall_joins[i][1], te.wall_joins[i][2]} : i \in DOMAIN te.wall_joins}

\* C30: when transform_elements_robust has returned, every pair of walls that
\* is joined is a pair store_wall_joins recorded before the transformation.
C30_NoNewJoins ==
    pc = "markers" => elems.joined \subseteq StoredPairs

====
